---- MODULE Spec2Model ----
(***************************************************************************)
(* Model of src/lib.rs: the `ResponseExt::deprecation` extractor and the   *)
(* `parse_deprecation_link` Link-header parser.                            *)
(*                                                                         *)
(* A Rust &str / header value is a sequence of characters. A printable     *)
(* ASCII character is the one-character string; tab, line feed, carriage   *)
(* return and form feed are "\t", "\n", "\r", "\f"; any other code point   *)
(* is the string "U+XXXX". OPAQUE stands for one byte in 0x80..0xFF of a   *)
(* header value, which `HeaderValue::to_str` rejects.                      *)
(***************************************************************************)
EXTENDS Integers, Sequences, FiniteSets, TLC

VARIABLES
    time_crate, \* the release of the `time` crate the build resolved
    headers,    \* the response's header list, in insertion order
    returned,   \* TRUE once deprecation() has returned
    result,     \* Option<Deprecation> returned by deprecation()
    input,      \* the &str handed to parse_deprecation_link
    pc,         \* position inside parse_deprecation_link
    parts,      \* what the `parts` iterator still holds
    url,        \* the local `url`
    ret,        \* Option<&str> returned by parse_deprecation_link
    iter        \* number of items the loop has taken from `parts`

vars == <<time_crate, headers, returned, result, input, pc, parts, url, ret, iter>>

(***************************************************************************)
(* Bounds                                                                  *)
(***************************************************************************)
MaxParams == 2
MaxHeaders == 3

(***************************************************************************)
(* Option<T>                                                               *)
(***************************************************************************)
None == [some |-> FALSE]
Some(x) == [some |-> TRUE, val |-> x]

(***************************************************************************)
(* str helpers (core::str)                                                 *)
(***************************************************************************)
OPAQUE == "0xFF"

\* The printable ASCII characters, 0x20..0x7E
PRINTABLE_ASCII ==
    { " ", "!", "\"", "#", "$", "%", "&", "'", "(", ")", "*", "+", ",",
      "-", ".", "/", "0", "1", "2", "3", "4", "5", "6", "7", "8", "9", ":",
      ";", "<", "=", ">", "?", "@", "A", "B", "C", "D", "E", "F", "G", "H",
      "I", "J", "K", "L", "M", "N", "O", "P", "Q", "R", "S", "T", "U", "V",
      "W", "X", "Y", "Z", "[", "\\", "]", "^", "_", "U+0060", "a", "b", "c",
      "d", "e", "f", "g", "h", "i", "j", "k", "l", "m", "n", "o", "p", "q",
      "r", "s", "t", "u", "v", "w", "x", "y", "z", "{", "|", "}", "~" }

\* The characters with the Unicode White_Space property
WHITE_SPACE ==
    { "\t", "\n", "U+000B", "\f", "\r", " ", "U+0085", "U+00A0", "U+1680",
      "U+2000", "U+2001", "U+2002", "U+2003", "U+2004", "U+2005", "U+2006",
      "U+2007", "U+2008", "U+2009", "U+200A", "U+2028", "U+2029", "U+202F",
      "U+205F", "U+3000" }

\* char::is_whitespace
IsWhitespace(c) == c \in WHITE_SPACE

RECURSIVE trim_start(_)
trim_start(s) ==
    IF s # <<>> /\ IsWhitespace(Head(s)) THEN trim_start(Tail(s)) ELSE s

RECURSIVE trim_end(_)
trim_end(s) ==
    IF s # <<>> /\ IsWhitespace(s[Len(s)])
    THEN trim_end(SubSeq(s, 1, Len(s) - 1))
    ELSE s

\* str::trim
trim(s) == trim_end(trim_start(s))

\* str::trim_start_matches(c): removes every leading c
RECURSIVE trim_start_matches(_, _)
trim_start_matches(s, c) ==
    IF s # <<>> /\ Head(s) = c THEN trim_start_matches(Tail(s), c) ELSE s

\* str::trim_end_matches(c): removes every trailing c
RECURSIVE trim_end_matches(_, _)
trim_end_matches(s, c) ==
    IF s # <<>> /\ s[Len(s)] = c
    THEN trim_end_matches(SubSeq(s, 1, Len(s) - 1), c)
    ELSE s

\* str::split(c), collected: always at least one item, empty items kept
RECURSIVE split(_, _)
split(s, c) ==
    IF \A i \in 1..Len(s) : s[i] # c
    THEN <<s>>
    ELSE LET i == CHOOSE k \in 1..Len(s) :
                      s[k] = c /\ \A j \in 1..(k - 1) : s[j] # c
         IN  <<SubSeq(s, 1, i - 1)>> \o split(SubSeq(s, i + 1, Len(s)), c)

(***************************************************************************)
(* parse_deprecation_link                                                  *)
(***************************************************************************)
REL == <<"r", "e", "l">>
QUOTED_DEPRECATION ==
    <<"\"", "d", "e", "p", "r", "e", "c", "a", "t", "i", "o", "n", "\"">>

\* input.split(';').map(|p| p.trim())
SplitParts(s) ==
    LET raw == split(s, ";") IN [i \in 1..Len(raw) |-> trim(raw[i])]

\* parts.next()?.trim_start_matches('<').trim_end_matches('>')
StripUrl(first) == trim_end_matches(trim_start_matches(first, "<"), ">")

\* param.split('=').collect::<Vec<_>>().try_into().ok()? : exactly two pieces
KeyValue(param) ==
    LET kv == split(param, "=") IN IF Len(kv) = 2 THEN Some(kv) ELSE None

\* Variant: the relation's value is not compared
IsRelDeprecationKeyOnly(kv) == kv[1] = REL

\* key == "rel" && value == r#""deprecation""#
IsRelDeprecation(kv) == kv[1] = REL /\ kv[2] = QUOTED_DEPRECATION

\* Variant: a segment that is not a key=value pair is skipped
ParamOutcomeLenient(param) ==
    LET kv == KeyValue(param)
    IN  IF ~kv.some THEN "next"
        ELSE IF IsRelDeprecation(kv.val) THEN "match" ELSE "next"

\* Variant: the first parameter that is not rel="deprecation" ends the scan
ParamOutcomeStrict(param) ==
    LET kv == KeyValue(param)
    IN  IF ~kv.some THEN "fail"
        ELSE IF IsRelDeprecation(kv.val) THEN "match" ELSE "fail"

\* One pass of the loop body on `param`:
\*   "fail"  the `?` after try_into returns None from the function
\*   "match" return Some(url)
\*   "next"  fall through to the next iteration
ParamOutcome(param) ==
    LET kv == KeyValue(param)
    IN  IF ~kv.some THEN "fail"
        ELSE IF IsRelDeprecation(kv.val) THEN "match" ELSE "next"

\* Variant: the iterator is not advanced
AdvanceStuck(ps) == ps

\* parts.next() consumes the item it yields
Advance(ps) == Tail(ps)

\* loop { ... } over the remaining parts
RECURSIVE ScanLoop(_, _)
ScanLoop(ps, u) ==
    IF ps = <<>> THEN None
    ELSE LET o == ParamOutcome(Head(ps))
         IN  IF o = "fail" THEN None
             ELSE IF o = "match" THEN Some(u)
             ELSE ScanLoop(Tail(ps), u)

parse_deprecation_link(s) ==
    LET ps == SplitParts(s)
    IN  IF ps = <<>> THEN None
        ELSE ScanLoop(Tail(ps), StripUrl(Head(ps)))

(***************************************************************************)
(* Inputs of parse_deprecation_link: a first segment followed by up to     *)
(* MaxParams segments, each introduced by ';'.                             *)
(***************************************************************************)
URL_DOC == <<"h", "t", "t", "p", ":", "/", "/", "e", "/", "d">>
URL_ALT == <<"h", "t", "t", "p", ":", "/", "/", "e">>
URL_TWO == <<"h", "t", "t", "p", ":", "/", "/", "e", "/", "2">>
URL_SEMI == <<"/", "a", ";", "b">>
URL_ANGLE == <<"<", "u", ">">>
QUOTED_ALTERNATE ==
    <<"\"", "a", "l", "t", "e", "r", "n", "a", "t", "e", "\"">>
DEPRECATION == <<"d", "e", "p", "r", "e", "c", "a", "t", "i", "o", "n">>
TYPE_HTML ==
    <<"t", "y", "p", "e", "=", "\"", "t", "e", "x", "t", "/", "h", "t",
      "m", "l", "\"">>

Bracketed(u) == <<"<">> \o u \o <<">">>

\* rel="deprecation"
REL_DEPRECATION == REL \o <<"=">> \o QUOTED_DEPRECATION

Urls == {URL_DOC, URL_SEMI, <<>>}

FirstSegments ==
    {Bracketed(u) : u \in Urls}
        \cup {Bracketed(URL_ANGLE), URL_DOC,
              <<"<">> \o URL_DOC, URL_DOC \o <<">">>,
              <<"\r">> \o Bracketed(URL_DOC) \o <<"\n">>}

ParamSegments ==
    { <<" ">> \o REL_DEPRECATION,                        \* ` rel="deprecation"`
      <<" ", " ">> \o TYPE_HTML,                         \* `  type="text/html"`
      <<" ">> \o REL \o <<"=">> \o QUOTED_ALTERNATE,     \* ` rel="alternate"`
      <<" ">> \o REL \o <<"=">> \o DEPRECATION,          \* ` rel=deprecation`
      <<" ", "R", "e", "l", "=">> \o QUOTED_DEPRECATION, \* ` Rel="deprecation"`
      <<"\t">> \o REL \o <<" ", "=", " ">> \o QUOTED_DEPRECATION \o <<" ">>,
      <<"\n">> \o REL_DEPRECATION \o <<"\r", "\n">>,
      <<"\f", "a", "=", "b", "U+00A0">>,
      <<" ", "b", "a", "d">>,                            \* ` bad`
      <<" ", "a", "=", "b", "=", "c">>,                  \* ` a=b=c`
      <<" ", "=", "x">>,                                 \* ` =x`
      <<" ">> \o REL \o <<"=">>,                         \* ` rel=`
      <<>> }                                             \* trailing `;`

ParamLists == UNION {[1..n -> ParamSegments] : n \in 0..MaxParams}

RECURSIVE JoinParams(_)
JoinParams(ps) ==
    IF ps = <<>> THEN <<>> ELSE <<";">> \o Head(ps) \o JoinParams(Tail(ps))

LinkInput(first, ps) == first \o JoinParams(ps)

\* The inputs of tests::parse_link_header and parse_link_header_different_order
TEST_LINK ==
    Bracketed(URL_DOC) \o <<";", " ">> \o REL_DEPRECATION
        \o <<";", " ">> \o TYPE_HTML
TEST_LINK_DIFFERENT_ORDER ==
    Bracketed(URL_DOC) \o <<";", " ", " ">> \o TYPE_HTML
        \o <<";", " ">> \o REL_DEPRECATION \o <<";">>

LinkInputs ==
    {LinkInput(first, ps) : first \in FirstSegments, ps \in ParamLists}
        \cup {TEST_LINK, TEST_LINK_DIFFERENT_ORDER}

(***************************************************************************)
(* RFC 2822 date-time, as OffsetDateTime::parse(_, &Rfc2822) of the `time` *)
(* crate reads it. A parser takes the remaining input and yields           *)
(* Some([rest, v]) or None. An instant is a UTC day number counted from    *)
(* 1970-01-01, the second of that day and the nanosecond (OffsetDateTime   *)
(* compares by instant).                                                   *)
(***************************************************************************)
DIGITS == <<"0", "1", "2", "3", "4", "5", "6", "7", "8", "9">>
UPPER ==
    << "A", "B", "C", "D", "E", "F", "G", "H", "I", "J", "K", "L", "M",
       "N", "O", "P", "Q", "R", "S", "T", "U", "V", "W", "X", "Y", "Z" >>
LOWER ==
    << "a", "b", "c", "d", "e", "f", "g", "h", "i", "j", "k", "l", "m",
       "n", "o", "p", "q", "r", "s", "t", "u", "v", "w", "x", "y", "z" >>

\* The control characters of RFC 2822 NO-WS-CTL: 1..8, 11, 12, 14..31, 127
NO_WS_CTL ==
    { "U+0001", "U+0002", "U+0003", "U+0004", "U+0005", "U+0006", "U+0007",
      "U+0008", "U+000B", "\f", "U+000E", "U+000F", "U+0010", "U+0011",
      "U+0012", "U+0013", "U+0014", "U+0015", "U+0016", "U+0017", "U+0018",
      "U+0019", "U+001A", "U+001B", "U+001C", "U+001D", "U+001E", "U+001F",
      "U+007F" }

IsDigit(c) == \E d \in 1..10 : DIGITS[d] = c

DigitVal(c) == (CHOOSE d \in 1..10 : DIGITS[d] = c) - 1

AllDigits(s) == \A i \in 1..Len(s) : IsDigit(s[i])

RECURSIVE Num(_)
Num(s) ==
    IF s = <<>> THEN 0
    ELSE 10 * Num(SubSeq(s, 1, Len(s) - 1)) + DigitVal(s[Len(s)])

\* u8::to_ascii_lowercase
ToLower(c) ==
    IF \E i \in 1..26 : UPPER[i] = c
    THEN LOWER[CHOOSE i \in 1..26 : UPPER[i] = c]
    ELSE c

IsLetter(c) == \E i \in 1..26 : UPPER[i] = c \/ LOWER[i] = c

Drop(s, n) == SubSeq(s, n + 1, Len(s))

StartsWith(s, lit) == Len(s) >= Len(lit) /\ SubSeq(s, 1, Len(lit)) = lit

\* The input starts with the literal, ASCII case ignored
StartsWithIgnoreCase(s, lit) ==
    /\ Len(s) >= Len(lit)
    /\ \A i \in 1..Len(lit) : ToLower(s[i]) = ToLower(lit[i])

\* combinator::first_match(options, false): the first option the input starts with
FirstMatch(options, s) ==
    IF \E k \in 1..Len(options) : StartsWithIgnoreCase(s, options[k].lit)
    THEN LET k == CHOOSE k \in 1..Len(options) :
                      /\ StartsWithIgnoreCase(s, options[k].lit)
                      /\ \A j \in 1..(k - 1) :
                             ~StartsWithIgnoreCase(s, options[j].lit)
         IN  Some([rest |-> Drop(s, Len(options[k].lit)), v |-> options[k].v])
    ELSE None

\* combinator::exactly_n_digits::<n>
ExactlyNDigits(s, n) ==
    IF Len(s) >= n /\ AllDigits(SubSeq(s, 1, n))
    THEN Some([rest |-> Drop(s, n), v |-> Num(SubSeq(s, 1, n))])
    ELSE None

\* combinator::n_to_m_digits::<1, 2>
OneOrTwoDigits(s) ==
    IF ExactlyNDigits(s, 2).some THEN ExactlyNDigits(s, 2)
    ELSE ExactlyNDigits(s, 1)

\* rfc2234::wsp
IsWsp(c) == c \in {" ", "\t"}

RECURSIVE SkipWsp(_)
SkipWsp(s) == IF s # <<>> /\ IsWsp(Head(s)) THEN SkipWsp(Tail(s)) ELSE s

\* one_or_more(wsp): Some(rest) or None
OneOrMoreWsp(s) ==
    IF s # <<>> /\ IsWsp(Head(s)) THEN Some(SkipWsp(s)) ELSE None

CRLF == <<"\r", "\n">>

\* rfc2822::fws: CRLF wsp+, or wsp+ followed by any number of CRLF wsp+
RECURSIVE FwsFolds(_)
FwsFolds(s) ==
    IF StartsWith(s, CRLF)
    THEN LET w == OneOrMoreWsp(Drop(s, 2))
         IN  IF w.some THEN FwsFolds(w.val) ELSE None
    ELSE Some(s)

Fws(s) ==
    IF StartsWith(s, CRLF) THEN OneOrMoreWsp(Drop(s, 2))
    ELSE LET w == OneOrMoreWsp(s)
         IN  IF w.some THEN FwsFolds(w.val) ELSE None

\* zero_or_more(fws)
RECURSIVE ZeroOrMoreFws(_)
ZeroOrMoreFws(s) ==
    LET f == Fws(s) IN IF f.some THEN ZeroOrMoreFws(f.val) ELSE s

\* rfc2822::ctext: NO-WS-CTL, or 33..39, 42..91, 93..126
IsCtext(c) ==
    \/ c \in NO_WS_CTL
    \/ c \in PRINTABLE_ASCII \ {" ", "(", ")", "\\"}

\* new_text of rfc2822::text: any ASCII character but NUL, LF and CR
IsNewText(c) == c \in (PRINTABLE_ASCII \cup NO_WS_CTL \cup {"\t"})

\* obs_char of rfc2822::text: any ASCII character but LF and CR; stops at `)`
IsObsChar(c) == c # ")" /\ (IsNewText(c) \/ c = "U+0000")

RECURSIVE SkipChar(_, _)
SkipChar(s, c) == IF s # <<>> /\ Head(s) = c THEN SkipChar(Tail(s), c) ELSE s

\* obs_text of rfc2822::text
RECURSIVE ObsText(_)
ObsText(s) ==
    LET t == SkipChar(SkipChar(s, "\n"), "\r")
    IN  IF t # <<>> /\ IsObsChar(Head(t)) THEN ObsText(Tail(t)) ELSE t

\* rfc2822::text
Text(s) == IF s # <<>> /\ IsNewText(Head(s)) THEN Tail(s) ELSE ObsText(s)

\* The manifest does not pin the `time` crate: a build resolves `time = "0.3"`
\* to one of its releases. Releases up to 0.3.44 and the releases from 0.3.47
\* read comments and the zone differently.
TIME_0_3_44 == "0.3.44"
TIME_0_3_47 == "0.3.47"
TimeVersions == {TIME_0_3_44, TIME_0_3_47}

\* rfc2822::DEPTH_LIMIT (0.3.47): a comment nested this deep is not read
DEPTH_LIMIT == 32

\* rfc2822::quoted_pair
QuotedPair(s) ==
    IF s # <<>> /\ Head(s) = "\\" THEN Some(Text(Tail(s))) ELSE None

\* rfc2822::comment and rfc2822::ccontent; depth is 1 for an outermost
\* comment and grows by one with every nesting
RECURSIVE Comment(_, _, _)
RECURSIVE CommentBody(_, _, _)
Ccontent(s, depth, ver) ==
    IF s # <<>> /\ IsCtext(Head(s)) THEN Some(Tail(s))
    ELSE IF QuotedPair(s).some THEN QuotedPair(s)
    ELSE Comment(s, depth + 1, ver)

CommentBody(s, depth, ver) ==
    LET c == Ccontent(s, depth, ver)
    IN  IF c.some THEN CommentBody(ZeroOrMoreFws(c.val), depth, ver)
        ELSE IF s # <<>> /\ Head(s) = ")" THEN Some(Tail(s))
        ELSE None

Comment(s, depth, ver) ==
    IF ver = TIME_0_3_47 /\ depth >= DEPTH_LIMIT THEN None
    ELSE IF s # <<>> /\ Head(s) = "("
    THEN CommentBody(ZeroOrMoreFws(Tail(s)), depth, ver)
    ELSE None

\* one element of cfws: fws, or else a comment
FwsOrComment(s, ver) == IF Fws(s).some THEN Fws(s) ELSE Comment(s, 1, ver)

\* opt(cfws): any number of fws and comments
RECURSIVE OptCfws(_, _)
OptCfws(s, ver) ==
    LET e == FwsOrComment(s, ver)
    IN  IF e.some THEN OptCfws(e.val, ver) ELSE s

\* rfc2822::cfws: at least one fws or comment
Cfws(s, ver) ==
    LET e == FwsOrComment(s, ver)
    IN  IF e.some THEN Some(OptCfws(e.val, ver)) ELSE None

WEEKDAYS ==
    << [lit |-> <<"M", "o", "n">>, v |-> 1], [lit |-> <<"T", "u", "e">>, v |-> 2],
       [lit |-> <<"W", "e", "d">>, v |-> 3], [lit |-> <<"T", "h", "u">>, v |-> 4],
       [lit |-> <<"F", "r", "i">>, v |-> 5], [lit |-> <<"S", "a", "t">>, v |-> 6],
       [lit |-> <<"S", "u", "n">>, v |-> 7] >>

MONTHS ==
    << [lit |-> <<"J", "a", "n">>, v |-> 1], [lit |-> <<"F", "e", "b">>, v |-> 2],
       [lit |-> <<"M", "a", "r">>, v |-> 3], [lit |-> <<"A", "p", "r">>, v |-> 4],
       [lit |-> <<"M", "a", "y">>, v |-> 5], [lit |-> <<"J", "u", "n">>, v |-> 6],
       [lit |-> <<"J", "u", "l">>, v |-> 7], [lit |-> <<"A", "u", "g">>, v |-> 8],
       [lit |-> <<"S", "e", "p">>, v |-> 9], [lit |-> <<"O", "c", "t">>, v |-> 10],
       [lit |-> <<"N", "o", "v">>, v |-> 11], [lit |-> <<"D", "e", "c">>, v |-> 12] >>

\* The named zones and their offsets in hours
ZONES ==
    << [lit |-> <<"U", "T">>, v |-> 0], [lit |-> <<"G", "M", "T">>, v |-> 0],
       [lit |-> <<"E", "S", "T">>, v |-> -5], [lit |-> <<"E", "D", "T">>, v |-> -4],
       [lit |-> <<"C", "S", "T">>, v |-> -6], [lit |-> <<"C", "D", "T">>, v |-> -5],
       [lit |-> <<"M", "S", "T">>, v |-> -7], [lit |-> <<"M", "D", "T">>, v |-> -6],
       [lit |-> <<"P", "S", "T">>, v |-> -8], [lit |-> <<"P", "D", "T">>, v |-> -7] >>

IsLeapYear(y) == y % 4 = 0 /\ (y % 100 # 0 \/ y % 400 = 0)

DaysInMonth(y, m) ==
    IF m = 2 THEN (IF IsLeapYear(y) THEN 29 ELSE 28)
    ELSE IF m \in {4, 6, 9, 11} THEN 30 ELSE 31

\* Days from 1970-01-01 to the civil date y-m-d (proleptic Gregorian)
DaysFromCivil(y, m, d) ==
    LET yy  == IF m <= 2 THEN y - 1 ELSE y
        era == yy \div 400
        yoe == yy - era * 400
        mp  == (m + 9) % 12
        doy == (153 * mp + 2) \div 5 + d - 1
        doe == yoe * 365 + yoe \div 4 - yoe \div 100 + doy
    IN  era * 146097 + doe - 719468

\* The civil date of a day number: [year, month, day]
CivilFromDays(days) ==
    LET z   == days + 719468
        era == z \div 146097
        doe == z - era * 146097
        yoe == (doe - doe \div 1460 + doe \div 36524 - doe \div 146096) \div 365
        doy == doe - (365 * yoe + yoe \div 4 - yoe \div 100)
        mp  == (5 * doy + 2) \div 153
        m   == IF mp < 10 THEN mp + 3 ELSE mp - 9
    IN  [year  |-> yoe + era * 400 + (IF m <= 2 THEN 1 ELSE 0),
         month |-> m,
         day   |-> doy - (153 * mp + 2) \div 5 + 1]

\* The offset written as a sign and four digits
NumericZone(s) ==
    IF s # <<>> /\ Head(s) \in {"+", "-"}
    THEN LET sign == IF Head(s) = "-" THEN -1 ELSE 1
             oh   == ExactlyNDigits(Tail(s), 2)
             om   == ExactlyNDigits(oh.val.rest, 2)
         IN  IF oh.some /\ om.some
             THEN Some([rest |-> om.val.rest,
                        v |-> [hour |-> sign * oh.val.v,
                               minute |-> om.val.v]])
             ELSE None
    ELSE None

\* A single letter other than J: offset 0
MilitaryZone(s) ==
    IF s # <<>> /\ IsLetter(Head(s)) /\ ToLower(Head(s)) # "j"
    THEN Some([rest |-> Tail(s), v |-> 0])
    ELSE None

\* Up to 0.3.44: first_match over UT, GMT, EST, ..., else a single letter,
\* each as a prefix of the input
ZoneLiteralPrefix(s) ==
    LET named == FirstMatch(ZONES, s)
    IN  IF named.some THEN named ELSE MilitaryZone(s)

\* rfc2822::zone_literal (0.3.47): with three or more characters left only
\* the three-letter names are tried; with fewer, UT and then a single letter
ZoneLiteral(s) ==
    IF Len(s) >= 3
    THEN FirstMatch(SelectSeq(ZONES, LAMBDA z : Len(z.lit) = 3), s)
    ELSE IF Len(s) = 2 /\ StartsWithIgnoreCase(s, <<"U", "T">>)
    THEN Some([rest |-> <<>>, v |-> 0])
    ELSE MilitaryZone(s)

\* The zone: a zone literal, or a sign and four digits. v is the offset
\* [hour, minute], the minutes unsigned.
Zone(s, ver) ==
    LET literal == IF ver = TIME_0_3_47 THEN ZoneLiteral(s)
                   ELSE ZoneLiteralPrefix(s)
    IN  IF literal.some
        THEN Some([rest |-> literal.val.rest,
                   v |-> [hour |-> literal.val.v, minute |-> 0]])
        ELSE NumericZone(s)

\* Date::from_calendar_date, Time::from_hms_nano, UtcOffset::from_hms,
\* OffsetDateTime::new_in_offset and the leap-second check: the instant, or
\* None when a component is out of range
DateTimeInstant(year, month, day, hour, minute, second, offset) ==
    LET leap  == second = 60
        sec   == IF leap THEN 59 ELSE second
        local == hour * 3600 + minute * 60 + sec
        \* UtcOffset::from_hms gives the minutes the sign of the hours
        offmin == IF offset.hour < 0 THEN -offset.minute ELSE offset.minute
        utc   == local - (offset.hour * 3600 + offmin * 60)
        days  == DaysFromCivil(year, month, day) + utc \div 86400
        date  == CivilFromDays(days)
    IN  IF /\ day >= 1
           /\ day <= DaysInMonth(year, month)
           /\ hour <= 23
           /\ minute <= 59
           /\ sec <= 59
           /\ offset.hour >= -25
           /\ offset.hour <= 25
           /\ offset.minute <= 59
           /\ leap => /\ utc % 86400 = 86399
                      /\ date.day = DaysInMonth(date.year, date.month)
        THEN Some([days |-> days,
                   second |-> utc % 86400,
                   nanosecond |-> IF leap THEN 999999999 ELSE 0])
        ELSE None

\* The state of Rfc2822::parse_offset_date_time: whether it is still going,
\* the input left, and the components read so far
ParseStart(s, ver) ==
    [ok |-> TRUE, ver |-> ver, rest |-> s, day |-> 0, month |-> 0, year |-> 0,
     hour |-> 0, minute |-> 0, second |-> 0,
     offset |-> [hour |-> 0, minute |-> 0]]

\* An Err return
Fail(st) == [st EXCEPT !.ok = FALSE]

\* opt(cfws), then an optional weekday, which needs "," and takes opt(cfws)
ParseWeekday(st) ==
    LET a       == OptCfws(st.rest, st.ver)
        weekday == FirstMatch(WEEKDAYS, a)
    IN  IF ~weekday.some
        THEN [st EXCEPT !.rest = a]
        ELSE IF weekday.val.rest # <<>> /\ Head(weekday.val.rest) = ","
        THEN [st EXCEPT !.rest = OptCfws(Tail(weekday.val.rest), st.ver)]
        ELSE Fail(st)

\* n_to_m_digits::<1, 2>, cfws
ParseDay(st) ==
    LET day == OneOrTwoDigits(st.rest)
        c   == Cfws(day.val.rest, st.ver)
    IN  IF st.ok /\ day.some /\ c.some
        THEN [st EXCEPT !.rest = c.val, !.day = day.val.v]
        ELSE Fail(st)

\* the month name, cfws
ParseMonth(st) ==
    LET month == FirstMatch(MONTHS, st.rest)
        d     == Cfws(month.val.rest, st.ver)
    IN  IF st.ok /\ month.some /\ d.some
        THEN [st EXCEPT !.rest = d.val, !.month = month.val.v]
        ELSE Fail(st)

\* exactly_n_digits::<4> at least 1900 and fws, else exactly_n_digits::<2>
\* (below 50 in 20xx, else 19xx) and cfws
ParseYear(st) ==
    LET year4 == ExactlyNDigits(st.rest, 4)
        year2 == ExactlyNDigits(st.rest, 2)
        e4    == Fws(year4.val.rest)
        e2    == Cfws(year2.val.rest, st.ver)
    IN  IF ~st.ok
        THEN st
        ELSE IF year4.some
        THEN IF year4.val.v >= 1900 /\ e4.some
             THEN [st EXCEPT !.rest = e4.val, !.year = year4.val.v]
             ELSE Fail(st)
        ELSE IF year2.some /\ e2.some
        THEN [st EXCEPT !.rest = e2.val,
                        !.year = IF year2.val.v < 50 THEN year2.val.v + 2000
                                 ELSE year2.val.v + 1900]
        ELSE Fail(st)

\* two digits, opt(cfws) ":" opt(cfws), two digits
ParseHourMinute(st) ==
    LET hour   == ExactlyNDigits(st.rest, 2)
        f      == OptCfws(hour.val.rest, st.ver)
        minute == ExactlyNDigits(OptCfws(Tail(f), st.ver), 2)
    IN  IF st.ok /\ hour.some /\ f # <<>> /\ Head(f) = ":" /\ minute.some
        THEN [st EXCEPT !.rest = minute.val.rest, !.hour = hour.val.v,
                        !.minute = minute.val.v]
        ELSE Fail(st)

\* optionally opt(cfws) ":" opt(cfws) and two digits; then cfws
ParseSecond(st) ==
    LET h      == OptCfws(st.rest, st.ver)
        hasSec == h # <<>> /\ Head(h) = ":"
        second == ExactlyNDigits(OptCfws(Tail(h), st.ver), 2)
        i      == Cfws(IF hasSec THEN second.val.rest ELSE st.rest, st.ver)
    IN  IF st.ok /\ (hasSec => second.some) /\ i.some
        THEN [st EXCEPT !.rest = i.val,
                        !.second = IF hasSec THEN second.val.v ELSE 0]
        ELSE Fail(st)

\* the zone, opt(cfws), and nothing after it
ParseZone(st) ==
    LET zone == Zone(st.rest, st.ver)
    IN  IF st.ok /\ zone.some /\ OptCfws(zone.val.rest, st.ver) = <<>>
        THEN [st EXCEPT !.rest = <<>>, !.offset = zone.val.v]
        ELSE Fail(st)

\* The date, time and offset read, as an instant; Err when the parse failed
Finish(st) ==
    IF st.ok
    THEN DateTimeInstant(st.year, st.month, st.day, st.hour, st.minute,
                         st.second, st.offset)
    ELSE None

\* Rfc2822::parse_offset_date_time: each `let input = ...;` is computed once
\* and handed to the next step
Rfc2822Parse(s, ver) ==
    CHOOSE r \in
        {Finish(st7) : st7 \in
        {ParseZone(st6) : st6 \in
        {ParseSecond(st5) : st5 \in
        {ParseHourMinute(st4) : st4 \in
        {ParseYear(st3) : st3 \in
        {ParseMonth(st2) : st2 \in
        {ParseDay(st1) : st1 \in
        {ParseWeekday(st0) : st0 \in {ParseStart(s, ver)}}}}}}}}} : TRUE

(***************************************************************************)
(* The header map (http::HeaderMap): names are stored lower-cased and      *)
(* looked up case-insensitively; values keep their insertion order.        *)
(***************************************************************************)
\* Variant: the presence check looks up the wrong header
HEADER_NAME_LINK == "Link"

\* const HEADER_NAME
HEADER_NAME == "Deprecation"

HdrName(n) ==
    CASE n = "Deprecation" -> "deprecation"
      [] n = "Link" -> "link"
      [] OTHER -> n

\* HeaderMap::get: the first value stored under the name
get(hs, name) ==
    IF \E i \in 1..Len(hs) : hs[i].name = HdrName(name)
    THEN Some(hs[CHOOSE i \in 1..Len(hs) :
                    /\ hs[i].name = HdrName(name)
                    /\ \A j \in 1..(i - 1) : hs[j].name # HdrName(name)].value)
    ELSE None

\* HeaderMap::get_all(name).iter(): every value stored under the name, in order
get_all(hs, name) ==
    LET sel == SelectSeq(hs, LAMBDA e : e.name = HdrName(name))
    IN  [i \in 1..Len(sel) |-> sel[i].value]

\* HeaderValue::to_str: fails on a byte that is not visible ASCII
to_str(v) ==
    IF \A i \in 1..Len(v) : v[i] \in PRINTABLE_ASCII \cup {"\t"}
    THEN Some(v)
    ELSE None

(***************************************************************************)
(* ResponseExt::deprecation                                                *)
(***************************************************************************)
TRUE_LITERAL == <<"t", "r", "u", "e">>

\* lines 24-27: the find_map closure on one Link value
LinkClosure(link) ==
    LET value_as_str == to_str(link)
    IN  IF ~value_as_str.some THEN None
        ELSE parse_deprecation_link(value_as_str.val)

\* Variant: the last Some the closure yields
RECURSIVE find_map_last(_)
find_map_last(links) ==
    IF links = <<>> THEN None
    ELSE LET found == LinkClosure(links[Len(links)])
         IN  IF found.some THEN found
             ELSE find_map_last(SubSeq(links, 1, Len(links) - 1))

\* line 23: find_map, the first Some the closure yields
RECURSIVE find_map(_)
find_map(links) ==
    IF links = <<>> THEN None
    ELSE LET found == LinkClosure(Head(links))
         IN  IF found.some THEN found ELSE find_map(Tail(links))

\* Variant: the comparison is inverted
IsTrueFlagInverted(value) == value # TRUE_LITERAL

\* line 30: value == "true"
IsTrueFlag(value) == value = TRUE_LITERAL

deprecation(hs, ver) ==
    LET value == get(hs, HEADER_NAME)
    IN  IF ~value.some THEN None
        ELSE
          LET deprecation_link == find_map(get_all(hs, "Link"))
          IN  IF IsTrueFlag(value.val)
              THEN Some([timestamp |-> None,
                         deprecation_link |-> deprecation_link])
              ELSE
                LET str == to_str(value.val)
                IN  IF ~str.some THEN None
                    ELSE Some([timestamp |-> Rfc2822Parse(str.val, ver),
                               deprecation_link |-> deprecation_link])

(***************************************************************************)
(* Header sets handed to deprecation(): up to MaxHeaders entries           *)
(***************************************************************************)
V_EPOCH ==
    <<"T", "h", "u", ",", " ", "0", "1", " ", "J", "a", "n", " ", "1", "9",
      "7", "0", " ", "0", "0", ":", "0", "0", ":", "0", "0", " ", "+", "0",
      "0", "0", "0">>
V_2021 ==
    <<"F", "r", "i", ",", " ", "0", "1", " ", "J", "a", "n", " ", "2", "0",
      "2", "1", " ", "1", "0", ":", "0", "0", ":", "1", "3", " ", "+", "0",
      "0", "0", "0">>
V_ISO8601 ==
    <<"2", "0", "2", "1", "-", "0", "1", "-", "0", "1", "T", "1", "0", ":",
      "0", "0", ":", "1", "3", "Z">>
V_BAD_DAY ==
    <<"S", "a", "t", ",", " ", "3", "1", " ", "F", "e", "b", " ", "1", "9",
      "7", "0", " ", "0", "0", ":", "0", "0", ":", "0", "0", " ", "+", "0",
      "0", "0", "0">>
\* the HTTP-date form, with the zone GMT
V_HTTP_DATE ==
    <<"T", "h", "u", ",", " ", "0", "1", " ", "J", "a", "n", " ", "1", "9",
      "7", "0", " ", "0", "0", ":", "0", "0", ":", "0", "0", " ", "G", "M",
      "T">>
\* obsolete syntax: lower case, one-digit day, two-digit year, no seconds,
\* a comment, a named zone
V_OBSOLETE ==
    <<" ", "t", "h", "u", ",", "1", " ", "j", "a", "n", " ", "7", "0", " ",
      "0", "0", ":", "0", "0", " ", "(", "e", "p", "o", "c", "h", ")", " ",
      "E", "S", "T">>
\* a leap second at the end of a month
V_LEAP_SECOND ==
    <<"W", "e", "d", ",", " ", "3", "1", " ", "D", "e", "c", " ", "1", "9",
      "6", "9", " ", "2", "3", ":", "5", "9", ":", "6", "0", " ", "+", "0",
      "0", "0", "0">>
\* the zone UT followed by a space: read by the releases up to 0.3.44 only
V_UT_TRAILING ==
    <<"T", "h", "u", ",", " ", "0", "1", " ", "J", "a", "n", " ", "1", "9",
      "7", "0", " ", "0", "0", ":", "0", "0", ":", "0", "0", " ", "U", "T",
      " ">>

DeprecationValues ==
    { TRUE_LITERAL, <<"T", "r", "u", "e">>, <<"T", "R", "U", "E">>, <<>>,
      V_EPOCH, V_2021, V_HTTP_DATE, V_OBSOLETE, V_LEAP_SECOND,
      V_UT_TRAILING,
      V_ISO8601, V_BAD_DAY, <<OPAQUE>> }

L_DEPRECATION == TEST_LINK
L_ALTERNATE ==
    Bracketed(URL_ALT) \o <<";", " ">> \o REL \o <<"=">> \o QUOTED_ALTERNATE
L_SECOND == Bracketed(URL_TWO) \o <<";", " ">> \o REL_DEPRECATION
L_MALFORMED ==
    Bracketed(URL_ALT) \o <<";", " ", "b", "a", "d", ";", " ">>
        \o REL_DEPRECATION
L_OPAQUE ==
    Bracketed(URL_ALT \o <<OPAQUE>>) \o <<";", " ">> \o REL_DEPRECATION

LinkValues == {L_DEPRECATION, L_ALTERNATE, L_SECOND, L_MALFORMED, L_OPAQUE}

HeaderEntries ==
    {[name |-> "deprecation", value |-> v] : v \in DeprecationValues}
        \cup {[name |-> "link", value |-> v] : v \in LinkValues}

HeaderLists == UNION {[1..n -> HeaderEntries] : n \in 0..MaxHeaders}

Init ==
    /\ time_crate \in TimeVersions
    /\ headers \in HeaderLists
    /\ returned = FALSE
    /\ result = None
    /\ input = <<>>
    /\ pc = "idle"
    /\ parts = <<>>
    /\ url = <<>>
    /\ ret = None
    /\ iter = 0

\* response.deprecation()
Deprecation ==
    /\ ~returned
    /\ pc = "idle"
    /\ result' = deprecation(headers, time_crate)
    /\ returned' = TRUE
    /\ UNCHANGED <<time_crate, headers, input, pc, parts, url, ret, iter>>

Next == Deprecation

Spec == Init /\ [][Next]_vars

(***************************************************************************)
(* Properties of deprecation() (checked under Spec)                        *)
(***************************************************************************)
DeprecationIndexes == {i \in 1..Len(headers) : headers[i].name = "deprecation"}
LinkIndexes == {i \in 1..Len(headers) : headers[i].name = "link"}

HasDeprecation == DeprecationIndexes # {}

Min(S) == CHOOSE x \in S : \A y \in S : x <= y

\* The value of the first Deprecation occurrence
DeprecationValue == headers[Min(DeprecationIndexes)].value

IsString(v) == OPAQUE \notin {v[i] : i \in 1..Len(v)}

\* The Link occurrences on which the Link-header parser yields a match
MatchingLinks ==
    {i \in LinkIndexes :
        IsString(headers[i].value)
            /\ parse_deprecation_link(headers[i].value).some}

\* The instants the enumerated RFC 2822 dates denote
Instant(days, second) ==
    [days |-> days, second |-> second, nanosecond |-> 0]

ExpectedTimestamp(v) ==
    CASE v = V_EPOCH -> Some(Instant(0, 0))
      [] v = V_2021 -> Some(Instant(18628, 36013))
      [] v = V_HTTP_DATE -> Some(Instant(0, 0))
      [] v = V_OBSOLETE -> Some(Instant(0, 18000))
      [] v = V_LEAP_SECOND ->
             Some([days |-> -1, second |-> 86399, nanosecond |-> 999999999])
      [] v = V_UT_TRAILING ->
             IF time_crate = TIME_0_3_44 THEN Some(Instant(0, 0)) ELSE None
      [] OTHER -> None

\* C1 as stated: whenever a Deprecation header is present, whatever its
\* value, deprecation() returns a present record.
C1_PresentHeaderGivesRecord == (returned /\ HasDeprecation) => result.some

\* C2: with no Deprecation header, deprecation() returns None, whatever Link
\* headers are present.
C2_AbsentHeaderGivesNone == (returned /\ ~HasDeprecation) => result = None

C2_Witness ==
    /\ returned
    /\ ~HasDeprecation
    /\ result = None
    /\ MatchingLinks # {}

\* C3: when the Deprecation header is present with a string value, the
\* timestamp depends on that value alone: None for `true`, the parsed instant
\* for an RFC 2822 date, None for any other string; Link headers do not
\* change it.
C3_TimestampByValueAlone ==
    (returned /\ HasDeprecation /\ IsString(DeprecationValue)) =>
        /\ result.some
        /\ result.val.timestamp = ExpectedTimestamp(DeprecationValue)
        /\ DeprecationValue = TRUE_LITERAL => result.val.timestamp = None

C3_Witness ==
    /\ returned
    /\ HasDeprecation
    /\ DeprecationValue = V_2021
    /\ MatchingLinks # {}
    /\ result.some
    /\ result.val.timestamp = Some(Instant(18628, 36013))

\* C4: in a returned record, deprecation_link is the URL the parser returns
\* for the first matching Link occurrence in header order, and None exactly
\* when no occurrence matches; non-matching occurrences are skipped.
C4_FirstMatchingLinkWins ==
    (returned /\ result.some) =>
        /\ MatchingLinks = {} <=> result.val.deprecation_link = None
        /\ MatchingLinks # {} =>
               result.val.deprecation_link =
                   parse_deprecation_link(headers[Min(MatchingLinks)].value)

C4_Witness ==
    /\ returned
    /\ result.some
    /\ Len(headers) = 3
    /\ headers[2].value = L_SECOND
    /\ headers[3].value = L_DEPRECATION
    /\ result.val.deprecation_link = Some(URL_TWO)

(***************************************************************************)
(* parse_deprecation_link, one loop iteration per step                     *)
(***************************************************************************)
InitParse ==
    /\ time_crate \in TimeVersions
    /\ headers = <<>>
    /\ returned = FALSE
    /\ result = None
    /\ input \in LinkInputs
    /\ pc = "start"
    /\ parts = <<>>
    /\ url = <<>>
    /\ ret = None
    /\ iter = 0

\* lines 53-55: split, trim, take the first item as the url
ParseSplit ==
    /\ pc = "start"
    /\ LET ps == SplitParts(input)
       IN  /\ parts' = Tail(ps)
           /\ url' = StripUrl(Head(ps))
    /\ pc' = "loop"
    /\ UNCHANGED <<time_crate, headers, returned, result, input, ret, iter>>

\* line 58: parts.next()? on an exhausted iterator
ScanExhausted ==
    /\ pc = "loop"
    /\ parts = <<>>
    /\ ret' = None
    /\ pc' = "done"
    /\ UNCHANGED <<time_crate, headers, returned, result, input, parts, url, iter>>

\* line 59: try_into().ok()? fails
ScanMalformed ==
    /\ pc = "loop"
    /\ parts # <<>>
    /\ ParamOutcome(Head(parts)) = "fail"
    /\ parts' = Advance(parts)
    /\ ret' = None
    /\ pc' = "done"
    /\ iter' = iter + 1
    /\ UNCHANGED <<time_crate, headers, returned, result, input, url>>

\* lines 61-63: return Some(url)
ScanMatch ==
    /\ pc = "loop"
    /\ parts # <<>>
    /\ ParamOutcome(Head(parts)) = "match"
    /\ parts' = Advance(parts)
    /\ ret' = Some(url)
    /\ pc' = "done"
    /\ iter' = iter + 1
    /\ UNCHANGED <<time_crate, headers, returned, result, input, url>>

\* line 64: the loop goes round
ScanNext ==
    /\ pc = "loop"
    /\ parts # <<>>
    /\ ParamOutcome(Head(parts)) = "next"
    /\ parts' = Advance(parts)
    /\ iter' = iter + 1
    /\ UNCHANGED <<time_crate, headers, returned, result, input, pc, url, ret>>

NextParse ==
    \/ ParseSplit
    \/ ScanExhausted
    \/ ScanMalformed
    \/ ScanMatch
    \/ ScanNext

SpecParse == InitParse /\ [][NextParse]_vars

ParseDone == pc = "done"

\* The step machine and the operator compute the same function.
StepsAgree == ParseDone => ret = parse_deprecation_link(input)

(***************************************************************************)
(* Properties of parse_deprecation_link (checked under SpecParse)          *)
(***************************************************************************)
\* The `;`-delimited segments of the input, untrimmed, and those after the first
RawSegments == split(input, ";")
RawParams == Tail(RawSegments)

\* Number of parameter segments the loop has reached
Consumed == iter

CountEq(seg) == Cardinality({i \in 1..Len(seg) : seg[i] = "="})

\* exactly one `=`, splitting the trimmed segment into two non-empty parts
NonEmptyPair(seg) ==
    LET t == trim(seg)
    IN  /\ CountEq(t) = 1
        /\ t[1] # "="
        /\ t[Len(t)] # "="

Wrapped(seg) == Len(seg) >= 2 /\ seg[1] = "<" /\ seg[Len(seg)] = ">"

Perms(n) == {p \in [1..n -> 1..n] : \A i, j \in 1..n : p[i] = p[j] => i = j}

\* The input with its parameter segments rearranged by p
Permuted(p) ==
    LinkInput(Head(RawSegments), [i \in 1..Len(RawParams) |-> RawParams[p[i]]])

\* C5: a URL is returned only if some parameter segment after the first is,
\* once trimmed, exactly rel="deprecation"; every input without such a
\* segment yields no match.
C5_MatchOnlyOnRelDeprecation ==
    (ParseDone /\ ret.some) =>
        \E i \in 1..Len(RawParams) : trim(RawParams[i]) = REL_DEPRECATION

C5_Witness ==
    /\ ParseDone
    /\ input = TEST_LINK
    /\ ret = Some(URL_DOC)

\* C6 as stated: for every first segment and every list of parameter
\* segments, every permutation of the parameter segments gives the same result.
C6_OrderInsignificantAnyParams ==
    ParseDone =>
        \A p \in Perms(Len(RawParams)) : parse_deprecation_link(Permuted(p)) = ret

\* C6 amended: when every parameter segment holds exactly one `=`, every
\* permutation of the parameter segments gives the same result; the URL is
\* returned whether rel="deprecation" stands before or after the others.
C6_OrderInsignificantWellFormed ==
    (ParseDone /\ \A i \in 1..Len(RawParams) : CountEq(RawParams[i]) = 1) =>
        \A p \in Perms(Len(RawParams)) : parse_deprecation_link(Permuted(p)) = ret

C6_Witness ==
    /\ ParseDone
    /\ ret = Some(URL_DOC)
    /\ Len(RawParams) = 2
    /\ trim(RawParams[1]) = TYPE_HTML
    /\ trim(RawParams[2]) = REL_DEPRECATION

\* C7 as stated: for every URL string U, `<U>; rel="deprecation"` yields
\* exactly U.
C7_ReturnsExactlyU ==
    ParseDone =>
        \A u \in Urls :
            input = Bracketed(u) \o <<";", " ">> \o REL_DEPRECATION
                => ret = Some(u)

\* C8 as stated: an input whose first segment is not wrapped in `<` and `>`
\* yields no match, even when a later segment is rel="deprecation".
C8_UnwrappedFirstSegmentNoMatch ==
    (ParseDone /\ ~Wrapped(trim(Head(RawSegments)))) => ret = None

\* C9 as stated: a reached parameter segment that is not exactly one `=`
\* between two non-empty parts makes the whole parse return no match.
C9_NotNonEmptyPairFails ==
    ParseDone =>
        \A i \in 1..Consumed : ~NonEmptyPair(RawParams[i]) => ret = None

\* C9 amended: a reached parameter segment that does not contain exactly one
\* `=` (none, or more than one) makes the whole parse return no match, even
\* if a later segment is rel="deprecation"; the scan stops at that segment.
C9_NotExactlyOneEqFails ==
    ParseDone =>
        \A i \in 1..Consumed :
            CountEq(RawParams[i]) # 1 => (ret = None /\ i = Consumed)

C9_Witness ==
    /\ ParseDone
    /\ ret = None
    /\ Consumed = 1
    /\ Len(RawParams) = 2
    /\ CountEq(RawParams[1]) = 0
    /\ trim(RawParams[2]) = REL_DEPRECATION

\* C10: every call ends with a match or no match and is never stuck before
\* it returns; each loop iteration consumes one segment, so the loop runs at
\* most once per segment; when the segments are exhausted, or an empty
\* segment (trailing `;`) is reached, the scan ends with no match.
C10_ScanTerminates ==
    /\ \/ ParseDone
       \/ pc = "start"
       \/ pc = "loop" /\ parts = <<>>
       \/ pc = "loop" /\ ParamOutcome(Head(parts)) \in {"fail", "match", "next"}
    /\ pc \in {"loop", "done"} => iter + Len(parts) = Len(RawParams)
    /\ ParseDone => ret \in {None, Some(url)}
    /\ ParseDone =>
           \A i \in 1..Consumed : trim(RawParams[i]) = <<>> => ret = None
    /\ (ParseDone /\ Consumed = Len(RawParams)
           /\ \A i \in 1..Len(RawParams) :
                  trim(RawParams[i]) # REL_DEPRECATION) => ret = None

C10_Witness ==
    /\ ParseDone
    /\ ret = None
    /\ Consumed = 2
    /\ Len(RawParams) = 2
    /\ trim(RawParams[1]) = TYPE_HTML
    /\ RawParams[2] = <<>>

====
